---- MODULE Spec2Model ----
(***************************************************************************)
(* Model of DeviceManager_VK (src/src/DeviceManagerVK.cpp): the capability *)
(* negotiated bring-up of a Vulkan device (createInstance, adapter         *)
(* selection, queue role resolution, createDevice, createSwapChain), the   *)
(* swapchain resize/destroy lifecycle and the per-frame BeginFrame /       *)
(* Present cycle with its bounded queue of in-flight event queries.        *)
(*                                                                         *)
(* The manager object is the record dm, whose fields carry the names of    *)
(* the members of the class.  Every private step of the class is an        *)
(* operator from a manager record to a manager record; the actions apply   *)
(* them at the position pc of the single thread that drives the manager.   *)
(***************************************************************************)
EXTENDS Integers, Sequences, FiniteSets, TLC

VARIABLES
    m_DeviceParams,  \* the configuration record of the manager
    build,           \* compile-time switches: NDEBUG (assert removed), WIN32
    driver,          \* what the Vulkan driver reports: names and adapters
    dm,              \* the members of DeviceManager_VK
    rhi,             \* the nvrhi device: event queries created and their state
    pc,              \* position of the calling thread
    ret,             \* what the last CreateDeviceAndSwapChain returned
    err,             \* the text of the last Error() call, structured
    calls,           \* native and nvrhi calls issued by the running operation
    hist             \* counters that bound a run, and the retire log

vars == <<m_DeviceParams, build, driver, dm, rhi, pc, ret, err, calls, hist>>

-----------------------------------------------------------------------------
(* Bounds of the model.                                                    *)

MaxMissing == 2        \* names the driver may fail to report
MaxAdapters == 2       \* adapters the driver enumerates
MaxFramesInFlight == 2 \* largest configured maxFramesInFlight
MaxPresents == 4       \* Present calls of one run
MaxResizes == 1        \* ResizeSwapChain calls of one run
MaxBringUps == 1       \* CreateDeviceAndSwapChain calls of one run
MaxFamilies == 3       \* queue families of the adapter of a resolution run

-----------------------------------------------------------------------------
(* Values of the source.                                                   *)

VK_NULL_HANDLE == 0
Unassigned == -1
\* uint32_t(-1), the cursor before any swapchain exists: 4294967295 is beyond
\* the integers of the model checker, and -1 stands for it (no image has it)
NoImageIndex == -1


\* va()/Error(): the message is kept as its fixed text and the items it lists
NoError == [text |-> "", items |-> {}]
ErrorMsg(text, items) == [text |-> text, items |-> items]

\* instance scope
RequiredInstanceExtensions == {"VK_KHR_get_physical_device_properties2"}
OptionalInstanceExtensions == {"VK_EXT_sampler_filter_minmax", "VK_EXT_debug_utils"}
\* device scope
RequiredDeviceExtensions == {"VK_KHR_swapchain", "VK_KHR_maintenance1"}
OptionalDeviceExtensions ==
    {"VK_EXT_debug_marker", "VK_EXT_descriptor_indexing",
     "VK_KHR_buffer_device_address", "VK_NV_mesh_shader",
     "VK_KHR_fragment_shading_rate"}
m_RayTracingExtensions ==
    {"VK_KHR_acceleration_structure", "VK_KHR_deferred_host_operations",
     "VK_KHR_pipeline_library", "VK_KHR_ray_query",
     "VK_KHR_ray_tracing_pipeline"}
DebugInstanceExtension == "VK_EXT_debug_report"
DebugLayer == "VK_LAYER_KHRONOS_validation"

\* the members of a freshly constructed DeviceManager_VK
NewManager ==
    [ enabledExtensions |->
        [instance |-> RequiredInstanceExtensions, layers |-> {},
         device |-> RequiredDeviceExtensions],
      optionalExtensions |->
        [instance |-> OptionalInstanceExtensions, layers |-> {},
         device |-> OptionalDeviceExtensions],
      m_RendererString |-> "",
      m_VulkanInstance |-> VK_NULL_HANDLE,
      m_DebugReportCallback |-> VK_NULL_HANDLE,
      m_VulkanPhysicalDevice |-> VK_NULL_HANDLE,
      m_GraphicsQueueFamily |-> Unassigned,
      m_ComputeQueueFamily |-> Unassigned,
      m_TransferQueueFamily |-> Unassigned,
      m_PresentQueueFamily |-> Unassigned,
      m_VulkanDevice |-> VK_NULL_HANDLE,
      m_GraphicsQueue |-> Unassigned,
      m_ComputeQueue |-> Unassigned,
      m_TransferQueue |-> Unassigned,
      m_PresentQueue |-> Unassigned,
      m_WindowSurface |-> VK_NULL_HANDLE,
      m_SwapChainFormat |-> "",
      m_SwapChain |-> VK_NULL_HANDLE,
      m_SwapChainImages |-> << >>,
      m_SwapChainIndex |-> NoImageIndex,
      m_NvrhiDevice |-> VK_NULL_HANDLE,
      m_ValidationLayer |-> VK_NULL_HANDLE,
      m_BarrierCommandList |-> VK_NULL_HANDLE,
      m_PresentSemaphore |-> VK_NULL_HANDLE,
      m_FramesInFlight |-> << >>,
      m_QueryPool |-> << >> ]

-----------------------------------------------------------------------------
(* Capability negotiation.                                                 *)

\* a faulty variant of the loop: optional names are enabled unasked
EnableOptional(enabled, optional, available) == enabled \cup optional

\* a faulty variant of the erasing loop: it stops at the first missing name
FirstMissing(required, available) ==
    IF required \subseteq available THEN {}
    ELSE {CHOOSE x \in required \ available : TRUE}

\* the enumeration loop: every reported name that is optional is enabled
EnableSupported(enabled, optional, available) ==
    enabled \cup (optional \cap available)

\* the enumeration loop: every reported name is erased from the required copy
MissingRequired(required, available) == required \ available

\* createInstance(): res is the result of vk::createInstance
createInstance(d, p, drv, res) ==
    LET e1 == [d.enabledExtensions EXCEPT
                 !.instance = @ \cup p.requiredVulkanInstanceExtensions,
                 !.layers = @ \cup p.requiredVulkanLayers]
        o1 == [d.optionalExtensions EXCEPT
                 !.instance = @ \cup p.optionalVulkanInstanceExtensions,
                 !.layers = @ \cup p.optionalVulkanLayers]
        requiredExtensions == MissingRequired(e1.instance, drv.instanceExtensions)
        e2 == [e1 EXCEPT !.instance =
                 EnableSupported(@, o1.instance, drv.instanceExtensions)]
        requiredLayers == MissingRequired(e2.layers, drv.instanceLayers)
        e3 == [e2 EXCEPT !.layers =
                 EnableSupported(@, o1.layers, drv.instanceLayers)]
    IN  IF requiredExtensions # {}
        THEN [ok |-> FALSE,
              dm |-> [d EXCEPT !.enabledExtensions = e2, !.optionalExtensions = o1],
              err |-> ErrorMsg("required extension(s) are not supported",
                               requiredExtensions),
              calls |-> << >>]
        ELSE IF requiredLayers # {}
        THEN [ok |-> FALSE,
              dm |-> [d EXCEPT !.enabledExtensions = e3, !.optionalExtensions = o1],
              err |-> ErrorMsg("required layer(s) are not supported",
                               requiredLayers),
              calls |-> << >>]
        ELSE IF res # "eSuccess"
        THEN [ok |-> FALSE,
              dm |-> [d EXCEPT !.enabledExtensions = e3, !.optionalExtensions = o1],
              err |-> ErrorMsg("Failed to create a Vulkan instance", {res}),
              calls |-> << <<"vkCreateInstance", res, 0>> >>]
        ELSE [ok |-> TRUE,
              dm |-> [d EXCEPT !.enabledExtensions = e3, !.optionalExtensions = o1,
                               !.m_VulkanInstance = 1],
              err |-> NoError,
              calls |-> << <<"vkCreateInstance", res, 0>> >>]

-----------------------------------------------------------------------------
(* Queue role resolution.                                                  *)

GraphicsCompatible(q) == q.queueCount > 0 /\ q.graphics
ComputeCompatible(q) == q.queueCount > 0 /\ q.compute /\ ~q.graphics
TransferCompatible(q) ==
    q.queueCount > 0 /\ q.transfer /\ ~q.compute /\ ~q.graphics
PresentCompatible(q) == q.queueCount > 0 /\ q.presentationSupport

\* a faulty variant of the iteration: a later compatible family replaces an
\* earlier one
AssignLatest(current, compatible, i) == IF compatible THEN i ELSE current

\* one role of one loop iteration: a role that is still -1 takes family i
AssignRole(current, compatible, i) ==
    IF current = Unassigned /\ compatible THEN i ELSE current

\* the loop of findQueueFamilies from family i on; the four members are
\* read as they are, the function never resets them
RECURSIVE ScanQueueFamilies(_, _, _)
ScanQueueFamilies(d, props, i) ==
    IF i >= Len(props) THEN d
    ELSE LET q == props[i + 1]
         IN  ScanQueueFamilies(
                 [d EXCEPT
                    !.m_GraphicsQueueFamily = AssignRole(@, GraphicsCompatible(q), i),
                    !.m_ComputeQueueFamily = AssignRole(@, ComputeCompatible(q), i),
                    !.m_TransferQueueFamily = AssignRole(@, TransferCompatible(q), i),
                    !.m_PresentQueueFamily = AssignRole(@, PresentCompatible(q), i)],
                 props, i + 1)

\* the return value of findQueueFamilies over the members after the loop
QueueFamiliesComplete(d, p) ==
    ~ (\/ d.m_GraphicsQueueFamily = Unassigned
       \/ d.m_PresentQueueFamily = Unassigned
       \/ (d.m_ComputeQueueFamily = Unassigned /\ p.enableComputeQueue)
       \/ (d.m_TransferQueueFamily = Unassigned /\ p.enableCopyQueue))

findQueueFamilies(d, p, props) ==
    LET Result(s) == [ok |-> QueueFamiliesComplete(s, p), dm |-> s]
    IN  Result(ScanQueueFamilies(d, props, 0))

-----------------------------------------------------------------------------
(* Adapter selection.                                                      *)

\* nvrhi::vulkan::convertFormat on the swapchain formats the manager handles
convertFormat(f) ==
    CASE f = "SRGBA8_UNORM" -> "eR8G8B8A8Srgb"
      [] f = "SBGRA8_UNORM" -> "eB8G8R8A8Srgb"
      [] f = "RGBA8_UNORM" -> "eR8G8B8A8Unorm"
      [] f = "BGRA8_UNORM" -> "eB8G8R8A8Unorm"
      [] OTHER -> "eUndefined"

ImageCountUnsupported(caps, p) ==
    \/ caps.minImageCount > p.swapChainBufferCount
    \/ (caps.maxImageCount < p.swapChainBufferCount /\ caps.maxImageCount > 0)

ImageExtentUnsupported(caps, p) ==
    \/ caps.minImageExtent.width > p.backBufferWidth
    \/ caps.minImageExtent.height > p.backBufferHeight
    \/ caps.maxImageExtent.width < p.backBufferWidth
    \/ caps.maxImageExtent.height < p.backBufferHeight

\* getSurfaceSupportKHR(m_GraphicsQueueFamily, surface) on adapter dev.  With
\* an index that is no family of dev the call is outside the valid usage of
\* the API: undef is what the driver then does ("true", "false", "fault").
SurfaceSupport(dev, family, undef) ==
    IF family >= 0 /\ family < Len(dev.queueFamilies)
    THEN IF dev.queueFamilies[family + 1].surfaceSupport THEN "true" ELSE "false"
    ELSE undef

\* the body of the loop of pickPhysicalDevice for one adapter
EvalAdapter(d, p, dev, undef) ==
    LET missing == MissingRequired(d.enabledExtensions.device, dev.extensions)
        r1 == {<<"missing", e>> : e \in missing}
        r2 == IF ~dev.samplerAnisotropy
              THEN {<<"does not support", "samplerAnisotropy">>} ELSE {}
        r3 == IF ~dev.textureCompressionBC
              THEN {<<"does not support", "textureCompressionBC">>} ELSE {}
        r4 == IF ImageCountUnsupported(dev.surfaceCaps, p)
              THEN {<<"cannot support", "the requested swap chain image count">>}
              ELSE {}
        r5 == IF ImageExtentUnsupported(dev.surfaceCaps, p)
              THEN {<<"cannot support", "the requested swap chain size">>} ELSE {}
        r6 == IF convertFormat(p.swapChainFormat) \notin dev.surfaceFormats
              THEN {<<"does not support", "the requested swap chain format">>}
              ELSE {}
        Judge(q, canPresent) ==
            LET r7 == IF ~q.ok
                      THEN {<<"does not support", "the necessary queue types">>}
                      ELSE {}
                r8 == IF canPresent = "false" THEN {<<"cannot", "present">>} ELSE {}
                reasons == r1 \cup r2 \cup r3 \cup r4 \cup r5 \cup r6 \cup r7 \cup r8
            IN  [dm |-> q.dm, fault |-> canPresent = "fault",
                 deviceIsGood |-> reasons = {}, reasons |-> reasons]
        Resolved(q) ==
            Judge(q, SurfaceSupport(dev, q.dm.m_GraphicsQueueFamily, undef))
    IN  Resolved(findQueueFamilies(d, p, dev.queueFamilies))

\* the loop of pickPhysicalDevice from adapter i on; undef[i] is the driver's
\* answer to an out-of-range surface-support query on adapter i
RECURSIVE PickLoop(_, _, _, _, _, _, _, _)
PickLoop(d, p, devs, undef, i, discreteGPUs, otherGPUs, items) ==
    IF i > Len(devs)
    THEN [dm |-> d, fault |-> FALSE, discreteGPUs |-> discreteGPUs,
          otherGPUs |-> otherGPUs, items |-> items]
    ELSE LET Sort(e, it) ==
                 IF e.fault
                 THEN [dm |-> e.dm, fault |-> TRUE, discreteGPUs |-> discreteGPUs,
                       otherGPUs |-> otherGPUs, items |-> it]
                 ELSE PickLoop(e.dm, p, devs, undef, i + 1,
                          IF e.deviceIsGood /\ devs[i].deviceType = "eDiscreteGpu"
                          THEN Append(discreteGPUs, i) ELSE discreteGPUs,
                          IF e.deviceIsGood /\ devs[i].deviceType # "eDiscreteGpu"
                          THEN Append(otherGPUs, i) ELSE otherGPUs,
                          it)
             Listed(e) ==
                 Sort(e, items \cup {<<i, devs[i].deviceName, e.reasons>>})
         IN  Listed(EvalAdapter(d, p, devs[i], undef[i]))

\* a faulty variant of the choice: the first enumerated adapter, good or not
FirstEnumerated(discreteGPUs, otherGPUs) == 1

\* the choice after the loop: first discrete GPU, else first other GPU
PreferredGPU(discreteGPUs, otherGPUs) ==
    IF discreteGPUs # << >> THEN discreteGPUs[1]
    ELSE IF otherGPUs # << >> THEN otherGPUs[1]
    ELSE VK_NULL_HANDLE

\* pickPhysicalDevice(): a physical device handle is the position of the
\* adapter in the driver's enumeration
pickPhysicalDevice(d, p, drv, undef) ==
    LET Pick(l, chosen) ==
            IF l.fault
            THEN [ok |-> FALSE, fault |-> TRUE, dm |-> l.dm, err |-> NoError]
            ELSE IF chosen # VK_NULL_HANDLE
            THEN [ok |-> TRUE, fault |-> FALSE,
                  dm |-> [l.dm EXCEPT !.m_VulkanPhysicalDevice = chosen],
                  err |-> NoError]
            ELSE [ok |-> FALSE, fault |-> FALSE, dm |-> l.dm,
                  err |-> ErrorMsg("Cannot find a Vulkan device", l.items)]
        Choose(l) == Pick(l, PreferredGPU(l.discreteGPUs, l.otherGPUs))
    IN  Choose(PickLoop(d, p, drv.adapters, undef, 1, << >>, << >>, {}))

-----------------------------------------------------------------------------
(* Logical device.                                                         *)

\* GetBackBufferCount()
GetBackBufferCount(d) == Len(d.m_SwapChainImages)

\* a call is <<operation, object it is addressed to, argument>>
DeviceTarget(d) ==
    IF d.m_VulkanDevice = VK_NULL_HANDLE THEN "null device" ELSE "device"
InstanceTarget(d) ==
    IF d.m_VulkanInstance = VK_NULL_HANDLE THEN "null instance" ELSE "instance"

\* GetDevice(): the validation wrapper when there is one, else the base device
GetDevice(d) ==
    IF d.m_ValidationLayer # VK_NULL_HANDLE THEN "validation" ELSE "base"

\* the families createDevice asks one queue of
UniqueQueueFamilies(d, p) ==
    {d.m_GraphicsQueueFamily, d.m_PresentQueueFamily}
        \cup (IF p.enableComputeQueue THEN {d.m_ComputeQueueFamily} ELSE {})
        \cup (IF p.enableCopyQueue THEN {d.m_TransferQueueFamily} ELSE {})

\* the device extensions createDevice enables from the adapter's enumeration
EnableDeviceExtensions(d, p, available) ==
    EnableSupported(
        EnableSupported(d.enabledExtensions.device,
                        d.optionalExtensions.device, available),
        IF p.enableRayTracingExtensions THEN m_RayTracingExtensions ELSE {},
        available)

\* createDevice(): res is the result of vkCreateDevice, handle the new device
createDevice(d, p, drv, res, handle) ==
    LET dev == drv.adapters[d.m_VulkanPhysicalDevice]
        d1 == [d EXCEPT !.enabledExtensions.device =
                   EnableDeviceExtensions(d, p, dev.extensions)]
        c == << <<"vkCreateDevice", res, Cardinality(UniqueQueueFamilies(d, p))>> >>
    IN  IF res # "eSuccess"
        THEN [ok |-> FALSE, dm |-> d1, calls |-> c,
              err |-> ErrorMsg("Failed to create a Vulkan physical device", {res})]
        ELSE [ok |-> TRUE, calls |-> c, err |-> NoError,
              dm |-> [d1 EXCEPT
                        !.m_VulkanDevice = handle,
                        !.m_GraphicsQueue = d.m_GraphicsQueueFamily,
                        !.m_ComputeQueue =
                            IF p.enableComputeQueue THEN d.m_ComputeQueueFamily ELSE @,
                        !.m_TransferQueue =
                            IF p.enableCopyQueue THEN d.m_TransferQueueFamily ELSE @,
                        !.m_PresentQueue = d.m_PresentQueueFamily,
                        !.m_RendererString = dev.deviceName]]

-----------------------------------------------------------------------------
(* Swapchain lifecycle.                                                    *)

\* a faulty variant of destroySwapChain: the wrappers are not cleared
destroySwapChainOnly(d) ==
    [dm |-> [d EXCEPT !.m_SwapChain = VK_NULL_HANDLE],
     idle |-> d.m_VulkanDevice # VK_NULL_HANDLE,
     calls |-> << <<"vkDeviceWaitIdle", "device", 0>>,
                  <<"vkDestroySwapchainKHR", DeviceTarget(d), d.m_SwapChain>> >>]

\* a faulty variant of destroySwapChain: the device is idled after the
\* swapchain and the wrappers are gone
destroySwapChainThenWait(d) ==
    [dm |-> [d EXCEPT !.m_SwapChain = VK_NULL_HANDLE, !.m_SwapChainImages = << >>],
     idle |-> d.m_VulkanDevice # VK_NULL_HANDLE,
     calls |-> << <<"vkDestroySwapchainKHR", DeviceTarget(d), d.m_SwapChain>>,
                  <<"releaseBackBuffers", "base", Len(d.m_SwapChainImages)>>,
                  <<"vkDeviceWaitIdle", "device", 0>> >>]

\* destroySwapChain()
destroySwapChain(d) ==
    [dm |-> [d EXCEPT !.m_SwapChain = VK_NULL_HANDLE, !.m_SwapChainImages = << >>],
     idle |-> d.m_VulkanDevice # VK_NULL_HANDLE,
     calls |->
        (IF d.m_VulkanDevice # VK_NULL_HANDLE
         THEN << <<"vkDeviceWaitIdle", "device", 0>> >> ELSE << >>)
        \o (IF d.m_SwapChain # VK_NULL_HANDLE
            THEN << <<"vkDestroySwapchainKHR", DeviceTarget(d), d.m_SwapChain>> >>
            ELSE << >>)
        \o (IF d.m_SwapChainImages # << >>
            THEN << <<"releaseBackBuffers", "base", Len(d.m_SwapChainImages)>> >>
            ELSE << >>)]

\* the wrapper createSwapChain makes of image k of swapchain sc
SwapChainImageOf(d, p, sc, k) ==
    [image |-> k, swapChain |-> sc,
     rhiHandle |-> [width |-> p.backBufferWidth, height |-> p.backBufferHeight,
                    format |-> p.swapChainFormat, initialState |-> "Present",
                    keepInitialState |-> TRUE, isRenderTarget |-> TRUE,
                    createdBy |-> "base"]]

\* the cursor createSwapChain leaves
InitialSwapChainIndex == 0

\* createSwapChain(): res is the result of vkCreateSwapchainKHR, sc the new
\* swapchain and n the number of images it returns
createSwapChain(d, p, res, sc, n) ==
    LET x == destroySwapChain(d)
        d1 == [x.dm EXCEPT !.m_SwapChainFormat = convertFormat(p.swapChainFormat)]
        enableSwapChainSharing == d.m_GraphicsQueueFamily # d.m_PresentQueueFamily
        c == x.calls \o
             << <<"vkCreateSwapchainKHR",
                  IF enableSwapChainSharing THEN "eConcurrent" ELSE "eExclusive",
                  IF p.vsyncEnabled THEN 1 ELSE 0>> >>
    IN  IF res # "eSuccess"
        THEN [ok |-> FALSE, dm |-> d1, idle |-> x.idle, calls |-> c,
              err |-> ErrorMsg("Failed to create a Vulkan swap chain", {res})]
        ELSE [ok |-> TRUE, idle |-> x.idle, err |-> NoError,
              calls |-> c \o [k \in 1..n |->
                                <<"createHandleForNativeTexture", "base", k>>],
              dm |-> [d1 EXCEPT
                        !.m_SwapChain = sc,
                        !.m_SwapChainImages =
                            @ \o [k \in 1..n |-> SwapChainImageOf(d, p, sc, k)],
                        !.m_SwapChainIndex = InitialSwapChainIndex]]

\* ResizeSwapChain()
ResizeSwapChain(d, p, res, sc, n) ==
    IF d.m_VulkanDevice # VK_NULL_HANDLE
    THEN LET Recreate(x) ==
                 [createSwapChain(x.dm, p, res, sc, n) EXCEPT
                    !.calls = x.calls \o @, !.idle = TRUE]
         IN  Recreate(destroySwapChain(d))
    ELSE [ok |-> FALSE, dm |-> d, idle |-> FALSE, calls |-> << >>, err |-> NoError]

\* a faulty variant of DestroyDeviceAndSwapChain: the logical device is
\* destroyed before the semaphore and the wrappers made from it
DestroyDeviceFirst(d) ==
    LET x == destroySwapChain(d)
        release(h, what) ==
            IF h # VK_NULL_HANDLE THEN << <<"release", what, h>> >> ELSE << >>
    IN  [dm |-> [x.dm EXCEPT
                   !.m_PresentSemaphore = VK_NULL_HANDLE,
                   !.m_BarrierCommandList = VK_NULL_HANDLE,
                   !.m_NvrhiDevice = VK_NULL_HANDLE,
                   !.m_ValidationLayer = VK_NULL_HANDLE,
                   !.m_RendererString = "",
                   !.m_VulkanDevice = VK_NULL_HANDLE,
                   !.m_WindowSurface = VK_NULL_HANDLE,
                   !.m_VulkanInstance = VK_NULL_HANDLE],
         idle |-> x.idle,
         calls |->
            x.calls
            \o (IF d.m_VulkanDevice # VK_NULL_HANDLE
                THEN << <<"vkDestroyDevice", "device", d.m_VulkanDevice>> >>
                ELSE << >>)
            \o << <<"vkDestroySemaphore", DeviceTarget(d), d.m_PresentSemaphore>> >>
            \o release(d.m_BarrierCommandList, "m_BarrierCommandList")
            \o release(d.m_NvrhiDevice, "m_NvrhiDevice")
            \o release(d.m_ValidationLayer, "m_ValidationLayer")
            \o << <<"clear", "m_RendererString", 0>> >>
            \o (IF d.m_DebugReportCallback # VK_NULL_HANDLE
                THEN << <<"vkDestroyDebugReportCallbackEXT", InstanceTarget(d),
                          d.m_DebugReportCallback>> >>
                ELSE << >>)
            \o (IF d.m_WindowSurface # VK_NULL_HANDLE
                THEN << <<"vkDestroySurfaceKHR", InstanceTarget(d), d.m_WindowSurface>> >>
                ELSE << >>)
            \o (IF d.m_VulkanInstance # VK_NULL_HANDLE
                THEN << <<"vkDestroyInstance", "instance", d.m_VulkanInstance>> >>
                ELSE << >>)]

\* DestroyDeviceAndSwapChain(): the members it leaves and the calls it issues
DestroyDeviceAndSwapChain(d) ==
    LET x == destroySwapChain(d)
        release(h, what) ==
            IF h # VK_NULL_HANDLE THEN << <<"release", what, h>> >> ELSE << >>
    IN  [dm |-> [x.dm EXCEPT
                   !.m_PresentSemaphore = VK_NULL_HANDLE,
                   !.m_BarrierCommandList = VK_NULL_HANDLE,
                   !.m_NvrhiDevice = VK_NULL_HANDLE,
                   !.m_ValidationLayer = VK_NULL_HANDLE,
                   !.m_RendererString = "",
                   !.m_VulkanDevice = VK_NULL_HANDLE,
                   !.m_WindowSurface = VK_NULL_HANDLE,
                   !.m_VulkanInstance = VK_NULL_HANDLE],
         idle |-> x.idle,
         calls |->
            x.calls
            \o << <<"vkDestroySemaphore", DeviceTarget(d), d.m_PresentSemaphore>> >>
            \o release(d.m_BarrierCommandList, "m_BarrierCommandList")
            \o release(d.m_NvrhiDevice, "m_NvrhiDevice")
            \o release(d.m_ValidationLayer, "m_ValidationLayer")
            \o << <<"clear", "m_RendererString", 0>> >>
            \o (IF d.m_DebugReportCallback # VK_NULL_HANDLE
                THEN << <<"vkDestroyDebugReportCallbackEXT", InstanceTarget(d),
                          d.m_DebugReportCallback>> >>
                ELSE << >>)
            \o (IF d.m_VulkanDevice # VK_NULL_HANDLE
                THEN << <<"vkDestroyDevice", "device", d.m_VulkanDevice>> >>
                ELSE << >>)
            \o (IF d.m_WindowSurface # VK_NULL_HANDLE
                THEN << <<"vkDestroySurfaceKHR", InstanceTarget(d), d.m_WindowSurface>> >>
                ELSE << >>)
            \o (IF d.m_VulkanInstance # VK_NULL_HANDLE
                THEN << <<"vkDestroyInstance", "instance", d.m_VulkanInstance>> >>
                ELSE << >>)]

\* a call through a null device or instance handle is among cs
ThroughNull(cs) ==
    \E i \in 1..Len(cs) : cs[i][2] \in {"null device", "null instance"}

-----------------------------------------------------------------------------
(* CreateDeviceAndSwapChain(): the code between its CHECKed steps.         *)

\* before createInstance: the debug runtime's extension and layer
RequestDebugRuntime(d, p) ==
    IF p.enableDebugRuntime
    THEN [d EXCEPT !.enabledExtensions.instance = @ \cup {DebugInstanceExtension},
                   !.enabledExtensions.layers = @ \cup {DebugLayer}]
    ELSE d

\* the swapchain format CreateDeviceAndSwapChain substitutes
RemapSwapChainFormat(f) ==
    IF f = "SRGBA8_UNORM" THEN "SBGRA8_UNORM"
    ELSE IF f = "RGBA8_UNORM" THEN "BGRA8_UNORM"
    ELSE f

\* after createInstance: installDebugCallback and the user's device extensions
AfterCreateInstance(d, p) ==
    [d EXCEPT
       !.m_DebugReportCallback = IF p.enableDebugRuntime THEN 1 ELSE @,
       !.enabledExtensions.device = @ \cup p.requiredVulkanDeviceExtensions,
       !.optionalExtensions.device = @ \cup p.optionalVulkanDeviceExtensions]

\* after createDevice: the nvrhi device and the validation wrapper around it
AfterCreateDevice(d, p) ==
    [d EXCEPT
       !.m_NvrhiDevice = d.m_VulkanDevice,
       !.m_ValidationLayer =
           IF p.enableNvrhiValidationLayer THEN d.m_VulkanDevice ELSE @]

\* after createSwapChain: the barrier command list and the present semaphore
AfterCreateSwapChain(d) ==
    [d EXCEPT !.m_BarrierCommandList = 1, !.m_PresentSemaphore = 1]

-----------------------------------------------------------------------------
(* Frame presentation.                                                     *)

\* vkDeviceWaitIdle: every submitted piece of work has completed
DeviceWaitIdle(r) == [r EXCEPT !.pending = << >>]

\* m_PresentQueue.waitIdle(): completes the graphics-queue work the event
\* queries wait for only when both roles share one queue
QueueWaitIdle(d, r) ==
    IF d.m_PresentQueue = d.m_GraphicsQueue THEN [r EXCEPT !.pending = << >>] ELSE r

\* waitEventQuery(query): returns when the work query was armed on, and so
\* everything submitted to the queue before it, has completed
RECURSIVE DropThrough(_, _)
DropThrough(pending, query) ==
    IF pending = << >> THEN << >>
    ELSE IF Head(pending) = query THEN Tail(pending)
    ELSE DropThrough(Tail(pending), query)

IsPending(r, query) == \E i \in 1..Len(r.pending) : r.pending[i] = query

waitEventQuery(r, query) ==
    IF IsPending(r, query) THEN [r EXCEPT !.pending = DropThrough(@, query)] ELSE r

\* a faulty variant of BeginFrame: the image index lands in the present role
BeginFrameIntoRole(d, b, res, idx) ==
    [dm |-> [d EXCEPT !.m_PresentQueueFamily = idx + 1],
     aborted |-> FALSE,
     calls |-> << <<"vkAcquireNextImageKHR", res, idx>>,
                  <<"queueWaitForSemaphore", "base", d.m_PresentSemaphore>> >>]

\* BeginFrame(): res and idx are what vkAcquireNextImageKHR returns
BeginFrame(d, b, res, idx) ==
    LET acquired == res \in {"eSuccess", "eSuboptimalKHR"}
        asserted == ~b.NDEBUG /\ res # "eSuccess"
    IN  [dm |-> [d EXCEPT !.m_SwapChainIndex = IF acquired THEN idx ELSE @],
         aborted |-> asserted,
         calls |-> << <<"vkAcquireNextImageKHR", res, idx>> >>
                   \o (IF asserted THEN << >>
                       ELSE << <<"queueWaitForSemaphore", "base", d.m_PresentSemaphore>> >>)]

\* a faulty variant of the idle wait: the vsync branch is missing
IdleWaitOnDebugOnly(p, b) == p.enableDebugRuntime

\* Present(): the present-queue idle wait after vkQueuePresentKHR
PresentQueueIdleWait(p, b) ==
    IF p.enableDebugRuntime THEN TRUE ELSE ~b.WIN32 /\ p.vsyncEnabled

\* Present(): the branch that holds the in-flight throttling
ThrottleRuns(p) == ~p.enableDebugRuntime

\* Present() up to the throttling loop: res is what vkQueuePresentKHR returns
PresentSubmit(d, p, b, res) ==
    LET asserted == ~b.NDEBUG /\ res \notin {"eSuccess", "eErrorOutOfDateKHR"}
        wait == PresentQueueIdleWait(p, b)
    IN  [aborted |-> asserted,
         wait |-> ~asserted /\ wait,
         throttle |-> ~asserted /\ ThrottleRuns(p),
         calls |-> << <<"queueSignalSemaphore", "base", d.m_PresentSemaphore>>,
                      <<"open", "m_BarrierCommandList", 0>>,
                      <<"close", "m_BarrierCommandList", 0>>,
                      <<"executeCommandList", "base", 0>>,
                      <<"vkQueuePresentKHR", res, d.m_SwapChainIndex>> >>
                   \o (IF ~asserted /\ wait
                       THEN << <<"vkQueueWaitIdle", "m_PresentQueue", 0>> >>
                       ELSE << >>)]

\* the condition of the throttling loop
OverLimit(d, p) == Len(d.m_FramesInFlight) > p.maxFramesInFlight

\* a faulty variant of the iteration: the front is pooled without the wait
RetireWithoutWait(d, r) ==
    [dm |-> [d EXCEPT !.m_FramesInFlight = Tail(@),
                      !.m_QueryPool = Append(@, Head(d.m_FramesInFlight))],
     rhi |-> r,
     calls |-> << <<"pop", "m_FramesInFlight", Head(d.m_FramesInFlight)>>,
                  <<"push_back", "m_QueryPool", Head(d.m_FramesInFlight)>> >>]

\* one iteration of the throttling loop: pop the front, wait on it, pool it
RetireOldest(d, r) ==
    LET query == Head(d.m_FramesInFlight)
    IN  [dm |-> [d EXCEPT !.m_FramesInFlight = Tail(@),
                          !.m_QueryPool = Append(@, query)],
         rhi |-> waitEventQuery(r, query),
         calls |-> << <<"pop", "m_FramesInFlight", query>>,
                      <<"waitEventQuery", "base", query>>,
                      <<"push_back", "m_QueryPool", query>> >>]

\* a faulty variant of ArmQuery: the pool is never drawn from
ArmFreshQuery(d, r) ==
    LET query == r.created + 1
    IN  [dm |-> [d EXCEPT !.m_FramesInFlight = Append(@, query)],
         rhi |-> [r EXCEPT !.created = query,
                           !.owner = Append(@, d.m_NvrhiDevice),
                           !.pending = Append(@, query)],
         calls |-> << <<"createEventQuery", "base", query>>,
                      <<"resetEventQuery", "base", query>>,
                      <<"setEventQuery", "base", query>>,
                      <<"push", "m_FramesInFlight", query>> >>]

\* after the loop: take a query from the pool or create one, reset it, arm it
\* on the graphics queue and push it onto the in-flight queue
ArmQuery(d, r) ==
    LET reuse == d.m_QueryPool # << >>
        query == IF reuse THEN d.m_QueryPool[Len(d.m_QueryPool)] ELSE r.created + 1
        r1 == IF reuse THEN r
              ELSE [r EXCEPT !.created = query,
                             !.owner = Append(@, d.m_NvrhiDevice)]
    IN  [dm |-> [d EXCEPT
                   !.m_QueryPool = IF reuse THEN SubSeq(@, 1, Len(@) - 1) ELSE @,
                   !.m_FramesInFlight = Append(@, query)],
         rhi |-> [r1 EXCEPT !.pending =
                     Append(SelectSeq(@, LAMBDA q : q # query), query)],
         calls |-> (IF reuse THEN << <<"pop_back", "m_QueryPool", query>> >>
                    ELSE << <<"createEventQuery", "base", query>> >>)
                   \o << <<"resetEventQuery", "base", query>>,
                         <<"setEventQuery", "base", query>>,
                         <<"push", "m_FramesInFlight", query>> >>]

-----------------------------------------------------------------------------
(* The configurations and the drivers a run starts from.                   *)

BaseParams ==
    [ requiredVulkanInstanceExtensions |-> {"VK_KHR_surface"},
      optionalVulkanInstanceExtensions |-> {"VK_EXT_swapchain_colorspace"},
      requiredVulkanLayers |-> {"VK_LAYER_LUNARG_monitor"},
      optionalVulkanLayers |-> {"VK_LAYER_LUNARG_api_dump"},
      requiredVulkanDeviceExtensions |-> {"VK_KHR_synchronization2"},
      optionalVulkanDeviceExtensions |-> {"VK_EXT_memory_budget"},
      enableComputeQueue |-> FALSE,
      enableCopyQueue |-> FALSE,
      enableRayTracingExtensions |-> FALSE,
      enableDebugRuntime |-> FALSE,
      enableNvrhiValidationLayer |-> FALSE,
      vsyncEnabled |-> FALSE,
      swapChainFormat |-> "SRGBA8_UNORM",
      swapChainBufferCount |-> 3,
      backBufferWidth |-> 1280,
      backBufferHeight |-> 720,
      maxFramesInFlight |-> 2 ]

\* every name of each scope that a configuration of the model can ask for
AllInstanceExtensions ==
    RequiredInstanceExtensions \cup OptionalInstanceExtensions
        \cup {DebugInstanceExtension}
        \cup BaseParams.requiredVulkanInstanceExtensions
        \cup BaseParams.optionalVulkanInstanceExtensions
AllLayers ==
    {DebugLayer} \cup BaseParams.requiredVulkanLayers
        \cup BaseParams.optionalVulkanLayers
AllDeviceExtensions ==
    RequiredDeviceExtensions \cup OptionalDeviceExtensions
        \cup m_RayTracingExtensions
        \cup BaseParams.requiredVulkanDeviceExtensions
        \cup BaseParams.optionalVulkanDeviceExtensions
AllNames == AllInstanceExtensions \cup AllLayers \cup AllDeviceExtensions

\* the subsets of S with at most k elements
RECURSIVE SubsetsUpTo(_, _)
SubsetsUpTo(S, k) ==
    IF k = 0 THEN {{}}
    ELSE LET T == SubsetsUpTo(S, k - 1)
         IN  T \cup {t \cup {x} : t \in T, x \in S}

\* queue family properties
Universal ==
    [queueCount |-> 1, graphics |-> TRUE, compute |-> TRUE, transfer |-> TRUE,
     presentationSupport |-> TRUE, surfaceSupport |-> TRUE]
Compute ==
    [queueCount |-> 1, graphics |-> FALSE, compute |-> TRUE, transfer |-> TRUE,
     presentationSupport |-> TRUE, surfaceSupport |-> TRUE]
Dma ==
    [queueCount |-> 1, graphics |-> FALSE, compute |-> FALSE, transfer |-> TRUE,
     presentationSupport |-> FALSE, surfaceSupport |-> FALSE]
Offscreen ==
    [queueCount |-> 1, graphics |-> TRUE, compute |-> TRUE, transfer |-> TRUE,
     presentationSupport |-> FALSE, surfaceSupport |-> FALSE]
Retired ==
    [queueCount |-> 0, graphics |-> TRUE, compute |-> TRUE, transfer |-> TRUE,
     presentationSupport |-> TRUE, surfaceSupport |-> TRUE]

FamilyLists ==
    { <<Universal>>, <<Universal, Compute, Dma>>, <<Dma, Universal>>,
      <<Compute>>, <<Offscreen, Compute>>, <<Retired, Universal, Compute>> }

DeviceTypes == {"eDiscreteGpu", "eIntegratedGpu"}
Defects == {"none", "extension", "feature", "many"}

\* an adapter of the given type with the given shortcoming and families
Adapter(type, defect, families) ==
    [ deviceName |-> IF type = "eDiscreteGpu" THEN "GeForce" ELSE "UHD Graphics",
      deviceType |-> type,
      extensions |-> IF defect \in {"extension", "many"}
                     THEN AllDeviceExtensions \ {"VK_KHR_synchronization2"}
                     ELSE AllDeviceExtensions,
      samplerAnisotropy |-> defect # "feature",
      textureCompressionBC |-> defect # "many",
      surfaceCaps |->
          IF defect = "many"
          THEN [minImageCount |-> 2, maxImageCount |-> 2,
                minImageExtent |-> [width |-> 1, height |-> 1],
                maxImageExtent |-> [width |-> 640, height |-> 480]]
          ELSE [minImageCount |-> 2, maxImageCount |-> 0,
                minImageExtent |-> [width |-> 1, height |-> 1],
                maxImageExtent |-> [width |-> 4096, height |-> 4096]],
      surfaceFormats |-> IF defect = "many" THEN {"eR8G8B8A8Unorm"}
                         ELSE {"eB8G8R8A8Srgb", "eB8G8R8A8Unorm"},
      queueFamilies |-> families ]

AdapterCatalog ==
    {Adapter(t, x, f) : t \in DeviceTypes, x \in Defects, f \in FamilyLists}

\* the sequences over S of length 1..n
RECURSIVE SeqsUpTo(_, _)
SeqsUpTo(S, n) ==
    IF n = 0 THEN {}
    ELSE LET T == SeqsUpTo(S, n - 1)
         IN  {<<x>> : x \in S} \cup {Append(t, x) : t \in T, x \in S}

FullDriver(adapters) ==
    [instanceExtensions |-> AllInstanceExtensions, instanceLayers |-> AllLayers,
     adapters |-> adapters]

Builds == [NDEBUG : BOOLEAN, WIN32 : BOOLEAN]

NewRhi == [created |-> 0, owner |-> << >>, pending |-> << >>]
NewHist == [bringUps |-> 0, presents |-> 0, resizes |-> 0, swapChains |-> 0,
            op |-> "constructor"]

InitManager ==
    /\ dm = NewManager
    /\ rhi = NewRhi
    /\ pc = "idle"
    /\ ret = "none"
    /\ err = NoError
    /\ calls = << >>
    /\ hist = NewHist

\* a capable adapter in front of every frame-pacing configuration
InitFrames ==
    /\ \E dbg \in BOOLEAN, vs \in BOOLEAN, val \in BOOLEAN,
          mf \in 1..MaxFramesInFlight :
          m_DeviceParams = [BaseParams EXCEPT
                              !.enableDebugRuntime = dbg,
                              !.vsyncEnabled = vs,
                              !.enableNvrhiValidationLayer = val,
                              !.swapChainBufferCount = 2,
                              !.maxFramesInFlight = mf]
    /\ build \in Builds
    /\ driver = FullDriver(<<Adapter("eDiscreteGpu", "none", <<Universal, Compute, Dma>>)>>)
    /\ InitManager

\* one adapter, and a driver that fails to report up to MaxMissing names
InitNegotiation ==
    /\ \E dbg \in BOOLEAN, rt \in BOOLEAN :
          m_DeviceParams = [BaseParams EXCEPT
                              !.enableDebugRuntime = dbg,
                              !.enableRayTracingExtensions = rt]
    /\ build = [NDEBUG |-> FALSE, WIN32 |-> TRUE]
    /\ \E missing \in SubsetsUpTo(AllNames, MaxMissing) :
          driver =
            [instanceExtensions |-> AllInstanceExtensions \ missing,
             instanceLayers |-> AllLayers \ missing,
             adapters |->
               << [Adapter("eDiscreteGpu", "none", <<Universal>>) EXCEPT
                     !.extensions = AllDeviceExtensions \ missing] >>]
    /\ InitManager

\* a driver that reports every name and enumerates adapters of the catalog
InitSelection ==
    /\ \E cq \in BOOLEAN, tq \in BOOLEAN :
          m_DeviceParams = [BaseParams EXCEPT
                              !.enableComputeQueue = cq,
                              !.enableCopyQueue = tq]
    /\ build = [NDEBUG |-> FALSE, WIN32 |-> TRUE]
    /\ \E adapters \in SeqsUpTo(AdapterCatalog, MaxAdapters) :
          driver = FullDriver(adapters)
    /\ InitManager

\* a family that only presents
PresentOnly ==
    [queueCount |-> 1, graphics |-> FALSE, compute |-> FALSE, transfer |-> FALSE,
     presentationSupport |-> TRUE, surfaceSupport |-> TRUE]

FamilyKinds == {Universal, Compute, Dma, Offscreen, Retired, PresentOnly}

\* one capable adapter with every list of one to MaxFamilies families
InitResolution ==
    /\ \E cq \in BOOLEAN, tq \in BOOLEAN :
          m_DeviceParams = [BaseParams EXCEPT
                              !.enableComputeQueue = cq,
                              !.enableCopyQueue = tq]
    /\ build = [NDEBUG |-> FALSE, WIN32 |-> TRUE]
    /\ \E families \in SeqsUpTo(FamilyKinds, MaxFamilies) :
          driver = FullDriver(<<Adapter("eDiscreteGpu", "none", families)>>)
    /\ InitManager

-----------------------------------------------------------------------------
(* Actions: CreateDeviceAndSwapChain, one action per CHECKed step.         *)

StartOp(name) == [hist EXCEPT !.op = name]

\* a step returned false: CreateDeviceAndSwapChain returns false
StepFails(r) ==
    /\ dm' = r.dm
    /\ err' = r.err
    /\ pc' = "idle"
    /\ ret' = "false"

CallCreateDeviceAndSwapChain ==
    /\ pc = "idle"
    /\ ret # "true"
    /\ dm.m_VulkanInstance = VK_NULL_HANDLE
    /\ hist.bringUps < MaxBringUps
    /\ dm' = RequestDebugRuntime(dm, m_DeviceParams)
    /\ pc' = "createInstance"
    /\ ret' = "none"
    /\ err' = NoError
    /\ calls' = << >>
    /\ hist' = [StartOp("CreateDeviceAndSwapChain") EXCEPT !.bringUps = @ + 1]
    /\ UNCHANGED <<m_DeviceParams, build, driver, rhi>>

StepCreateInstance ==
    /\ pc = "createInstance"
    /\ \E res \in {"eSuccess", "eErrorIncompatibleDriver"} :
          \E r \in {createInstance(dm, m_DeviceParams, driver, res)} :
              /\ calls' = calls \o r.calls
              /\ IF r.ok
                 THEN /\ dm' = AfterCreateInstance(r.dm, m_DeviceParams)
                      /\ m_DeviceParams' =
                            [m_DeviceParams EXCEPT
                               !.swapChainFormat = RemapSwapChainFormat(@)]
                      /\ pc' = "createWindowSurface"
                      /\ UNCHANGED <<ret, err>>
                 ELSE /\ StepFails(r)
                      /\ UNCHANGED m_DeviceParams
    /\ UNCHANGED <<build, driver, rhi, hist>>

StepCreateWindowSurface ==
    /\ pc = "createWindowSurface"
    /\ \E res \in {"eSuccess", "eErrorNativeWindowInUseKHR"} :
          /\ calls' = Append(calls, <<"vkCreateSurfaceKHR", res, 0>>)
          /\ IF res = "eSuccess"
             THEN /\ dm' = [dm EXCEPT !.m_WindowSurface = 1]
                  /\ pc' = "pickPhysicalDevice"
                  /\ UNCHANGED <<ret, err>>
             ELSE StepFails([dm |-> dm,
                             err |-> ErrorMsg("Failed to create a window surface",
                                              {res})])
    /\ UNCHANGED <<m_DeviceParams, build, driver, rhi, hist>>

StepPickPhysicalDevice ==
    /\ pc = "pickPhysicalDevice"
    /\ \E undef \in [1..Len(driver.adapters) -> {"true", "false", "fault"}] :
          \E r \in {pickPhysicalDevice(dm, m_DeviceParams, driver, undef)} :
              IF r.fault
              THEN /\ dm' = r.dm
                   /\ pc' = "aborted"
                   /\ UNCHANGED <<ret, err>>
              ELSE IF r.ok
              THEN /\ dm' = r.dm
                   /\ pc' = "findQueueFamilies"
                   /\ UNCHANGED <<ret, err>>
              ELSE StepFails(r)
    /\ UNCHANGED <<m_DeviceParams, build, driver, rhi, calls, hist>>

StepFindQueueFamilies ==
    /\ pc = "findQueueFamilies"
    /\ \E r \in {findQueueFamilies(dm, m_DeviceParams,
                    driver.adapters[dm.m_VulkanPhysicalDevice].queueFamilies)} :
           IF r.ok
           THEN /\ dm' = r.dm
                /\ pc' = "createDevice"
                /\ UNCHANGED <<ret, err>>
           ELSE StepFails([dm |-> r.dm, err |-> err])
    /\ UNCHANGED <<m_DeviceParams, build, driver, rhi, calls, hist>>

StepCreateDevice ==
    /\ pc = "createDevice"
    /\ \E res \in {"eSuccess", "eErrorFeatureNotPresent"} :
          \E r \in {createDevice(dm, m_DeviceParams, driver, res, hist.bringUps)} :
              /\ calls' = calls \o r.calls
              /\ IF r.ok
                 THEN /\ dm' = AfterCreateDevice(r.dm, m_DeviceParams)
                      /\ pc' = "createSwapChain"
                      /\ UNCHANGED <<ret, err>>
                 ELSE StepFails(r)
    /\ UNCHANGED <<m_DeviceParams, build, driver, rhi, hist>>

\* the numbers of images a new swapchain may return
ImageCounts(p) == {p.swapChainBufferCount, p.swapChainBufferCount + 1}

StepCreateSwapChain ==
    /\ pc = "createSwapChain"
    /\ \E res \in {"eSuccess", "eErrorInitializationFailed"},
          n \in ImageCounts(m_DeviceParams) :
          \E r \in {createSwapChain(dm, m_DeviceParams, res, hist.swapChains + 1, n)} :
              /\ rhi' = IF r.idle THEN DeviceWaitIdle(rhi) ELSE rhi
              /\ IF r.ok
                 THEN /\ dm' = AfterCreateSwapChain(r.dm)
                      /\ calls' = calls \o r.calls \o
                                  << <<"createCommandList", "base", 0>>,
                                     <<"vkCreateSemaphore", "device", 0>> >>
                      /\ hist' = [hist EXCEPT !.swapChains = @ + 1]
                      /\ pc' = "idle"
                      /\ ret' = "true"
                      /\ UNCHANGED err
                 ELSE /\ StepFails(r)
                      /\ calls' = calls \o r.calls
                      /\ UNCHANGED hist
    /\ UNCHANGED <<m_DeviceParams, build, driver>>

\* DestroyDeviceAndSwapChain: a call through a null handle is outside the
\* valid usage of the API, the driver may fault on it
CallDestroyDeviceAndSwapChain ==
    /\ pc = "idle"
    /\ \E r \in {DestroyDeviceAndSwapChain(dm)} :
           /\ dm' = r.dm
           /\ calls' = r.calls
           /\ rhi' = IF r.idle THEN DeviceWaitIdle(rhi) ELSE rhi
           /\ \E outcome \in {"returns", "fault"} :
                 /\ outcome = "fault" => ThroughNull(r.calls)
                 /\ pc' = IF outcome = "fault" THEN "aborted" ELSE "idle"
    /\ ret' = "none"
    /\ err' = NoError
    /\ hist' = StartOp("DestroyDeviceAndSwapChain")
    /\ UNCHANGED <<m_DeviceParams, build, driver>>

NextBringUp ==
    \/ CallCreateDeviceAndSwapChain
    \/ StepCreateInstance
    \/ StepCreateWindowSurface
    \/ StepPickPhysicalDevice
    \/ StepFindQueueFamilies
    \/ StepCreateDevice
    \/ StepCreateSwapChain
    \/ CallDestroyDeviceAndSwapChain

\* bring-up against a driver that fails to report some names
SpecNegotiation == InitNegotiation /\ [][NextBringUp]_vars

\* bring-up against every system of one to MaxAdapters catalog adapters
SpecSelection == InitSelection /\ [][NextBringUp]_vars

\* bring-up on one adapter, over every list of queue families
SpecResolution == InitResolution /\ [][NextBringUp]_vars

-----------------------------------------------------------------------------
(* Actions: the per-frame cycle and the resize, after a bring-up that      *)
(* returned true.                                                          *)

Ready == pc = "idle" /\ ret = "true"

\* what vkAcquireNextImageKHR may return: an image of the swapchain, or, when
\* there is no swapchain to acquire from, an error or a fault
AcquireResults(d) ==
    IF d.m_SwapChain # VK_NULL_HANDLE
    THEN {"eSuccess", "eSuboptimalKHR", "eErrorOutOfDateKHR"}
    ELSE {"eErrorSurfaceLostKHR", "fault"}

AcquirableImages(d) ==
    IF d.m_SwapChainImages # << >>
    THEN 0..(Len(d.m_SwapChainImages) - 1) ELSE {d.m_SwapChainIndex}

CallBeginFrame ==
    /\ Ready
    /\ \E res \in AcquireResults(dm), idx \in AcquirableImages(dm) :
          \E r \in {BeginFrame(dm, build, res, idx)} :
              /\ dm' = IF res = "fault" THEN dm ELSE r.dm
              /\ calls' = r.calls
              /\ pc' = IF res = "fault" \/ r.aborted THEN "aborted" ELSE "idle"
    /\ hist' = StartOp("BeginFrame")
    /\ err' = NoError
    /\ UNCHANGED <<m_DeviceParams, build, driver, rhi, ret>>

\* what vkQueuePresentKHR may return
PresentResults(d) ==
    IF d.m_SwapChain # VK_NULL_HANDLE
    THEN {"eSuccess", "eErrorOutOfDateKHR", "eErrorDeviceLost"}
    ELSE {"eErrorSurfaceLostKHR", "fault"}

CallPresent ==
    /\ Ready
    /\ hist.presents < MaxPresents
    /\ \E res \in PresentResults(dm) :
          \E r \in {PresentSubmit(dm, m_DeviceParams, build, res)} :
              /\ calls' = r.calls
              /\ rhi' = IF r.wait /\ res # "fault" THEN QueueWaitIdle(dm, rhi) ELSE rhi
              /\ pc' = IF res = "fault" \/ r.aborted THEN "aborted"
                       ELSE IF r.throttle THEN "throttle"
                       ELSE "idle"
    /\ hist' = [StartOp("Present") EXCEPT !.presents = @ + 1]
    /\ err' = NoError
    /\ UNCHANGED <<m_DeviceParams, build, driver, dm, ret>>

\* Present(): one iteration of the throttling loop
PresentRetire ==
    /\ pc = "throttle"
    /\ OverLimit(dm, m_DeviceParams)
    /\ \E r \in {RetireOldest(dm, rhi)} :
          /\ dm' = r.dm
          /\ rhi' = r.rhi
          /\ calls' = calls \o r.calls
    /\ UNCHANGED <<m_DeviceParams, build, driver, pc, ret, err, hist>>

\* Present(): the loop has ended, this frame's query is armed; Present returns
PresentArm ==
    /\ pc = "throttle"
    /\ ~OverLimit(dm, m_DeviceParams)
    /\ \E r \in {ArmQuery(dm, rhi)} :
          /\ dm' = r.dm
          /\ rhi' = r.rhi
          /\ calls' = calls \o r.calls
    /\ pc' = "idle"
    /\ UNCHANGED <<m_DeviceParams, build, driver, ret, err, hist>>

CallResizeSwapChain ==
    /\ Ready
    /\ hist.resizes < MaxResizes
    /\ \E res \in {"eSuccess", "eErrorInitializationFailed"},
          n \in ImageCounts(m_DeviceParams) :
          \E r \in {ResizeSwapChain(dm, m_DeviceParams, res,
                                    hist.swapChains + 1, n)} :
              /\ dm' = r.dm
              /\ calls' = r.calls
              /\ err' = r.err
              /\ rhi' = IF r.idle THEN DeviceWaitIdle(rhi) ELSE rhi
    /\ hist' = [StartOp("ResizeSwapChain") EXCEPT
                  !.resizes = @ + 1, !.swapChains = @ + 1]
    /\ UNCHANGED <<m_DeviceParams, build, driver, pc, ret>>

\* the GPU finishes the oldest piece of work an event query is armed on
GpuCompletes ==
    /\ rhi.pending # << >>
    /\ pc # "aborted"
    /\ rhi' = [rhi EXCEPT !.pending = Tail(@)]
    /\ UNCHANGED <<m_DeviceParams, build, driver, dm, pc, ret, err, calls, hist>>

Init == InitFrames

Next ==
    \/ NextBringUp
    \/ CallBeginFrame
    \/ CallPresent
    \/ PresentRetire
    \/ PresentArm
    \/ CallResizeSwapChain
    \/ GpuCompletes

Spec == Init /\ [][Next]_vars

-----------------------------------------------------------------------------
(* Frame pacing: properties of Present.                                    *)

\* a call of op has returned and nothing was called since
Returned(op) == pc = "idle" /\ hist.op = op

Called(op) == \E i \in 1..Len(calls) : calls[i][1] = op

\* C1: when a Present call returns, the in-flight queue holds at most
\* maxFramesInFlight completion markers.
C1_QueueWithinLimit ==
    Returned("Present") =>
        Len(dm.m_FramesInFlight) <= m_DeviceParams.maxFramesInFlight

\* C2: every Present call that returns has run the throttling step, so a
\* marker was armed for the frame, whatever enableDebugRuntime and
\* vsyncEnabled are.
C2_ThrottleOnEveryPresent ==
    Returned("Present") =>
        /\ Called("resetEventQuery")
        /\ Called("setEventQuery")
        /\ Called("push")

\* C3: with maxFramesInFlight = 2 and the queue and the pool empty at the
\* start, the third consecutive Present has waited on the marker of the first
\* and reuses it: at most two markers exist when it returns.
C3_ThirdPresentReuses ==
    ( /\ Returned("Present")
      /\ m_DeviceParams.maxFramesInFlight = 2
      /\ ~m_DeviceParams.enableDebugRuntime
      /\ hist.bringUps = 1
      /\ hist.presents = 3 ) =>
        /\ rhi.created <= 2
        /\ Called("waitEventQuery")
        /\ Called("pop_back")

\* the pool grows only by the marker at the head of the in-flight queue, which
\* leaves the queue, and the wait on it has completed
PooledFromHead ==
    Len(dm'.m_QueryPool) > Len(dm.m_QueryPool) =>
        /\ dm.m_FramesInFlight # << >>
        /\ dm'.m_QueryPool = Append(dm.m_QueryPool, Head(dm.m_FramesInFlight))
        /\ dm'.m_FramesInFlight = Tail(dm.m_FramesInFlight)
        /\ ~IsPending(rhi', Head(dm.m_FramesInFlight))

NoPooledMarkerPending ==
    \A i \in 1..Len(dm.m_QueryPool) : ~IsPending(rhi, dm.m_QueryPool[i])

\* C4: a marker enters the reuse pool only when it is popped from the head of
\* the in-flight queue and the wait on it has completed; no marker is in the
\* pool while the GPU work it was armed on is outstanding.
C4_PooledAfterWait == [][PooledFromHead]_vars /\ []NoPooledMarkerPending

\* a marker was retired while the GPU still works on a later frame
C4_Witness ==
    /\ pc = "throttle"
    /\ dm.m_QueryPool # << >>
    /\ rhi.pending # << >>
    /\ Called("waitEventQuery")

-----------------------------------------------------------------------------
(* Capability negotiation: properties of the bring-up.                     *)

\* what the configuration requires and what it would like, per scope
RequiredInstance ==
    RequiredInstanceExtensions
        \cup m_DeviceParams.requiredVulkanInstanceExtensions
        \cup (IF m_DeviceParams.enableDebugRuntime
              THEN {DebugInstanceExtension} ELSE {})
OptionalInstance ==
    OptionalInstanceExtensions
        \cup m_DeviceParams.optionalVulkanInstanceExtensions
RequiredLayers ==
    m_DeviceParams.requiredVulkanLayers
        \cup (IF m_DeviceParams.enableDebugRuntime THEN {DebugLayer} ELSE {})
OptionalLayers == m_DeviceParams.optionalVulkanLayers
RequiredDevice ==
    RequiredDeviceExtensions \cup m_DeviceParams.requiredVulkanDeviceExtensions
OptionalDevice ==
    OptionalDeviceExtensions
        \cup m_DeviceParams.optionalVulkanDeviceExtensions
        \cup (IF m_DeviceParams.enableRayTracingExtensions
              THEN m_RayTracingExtensions ELSE {})

SelectedAdapter == driver.adapters[dm.m_VulkanPhysicalDevice]

\* C5: when bring-up succeeds, in each scope the enabled set is
\* required \cup (optional \cap available): it holds every required name and
\* no name the driver did not report; the ray-tracing names are optional
\* exactly when enableRayTracingExtensions is set.
C5_EnabledSets ==
    ret = "true" =>
        /\ dm.enabledExtensions.instance =
              RequiredInstance \cup (OptionalInstance \cap driver.instanceExtensions)
        /\ dm.enabledExtensions.layers =
              RequiredLayers \cup (OptionalLayers \cap driver.instanceLayers)
        /\ dm.enabledExtensions.device =
              RequiredDevice \cup (OptionalDevice \cap SelectedAdapter.extensions)
        /\ RequiredInstance \subseteq dm.enabledExtensions.instance
        /\ RequiredLayers \subseteq dm.enabledExtensions.layers
        /\ RequiredDevice \subseteq dm.enabledExtensions.device
        /\ dm.enabledExtensions.instance \subseteq driver.instanceExtensions
        /\ dm.enabledExtensions.layers \subseteq driver.instanceLayers
        /\ dm.enabledExtensions.device \subseteq SelectedAdapter.extensions

\* bring-up succeeded on a driver that lacks an optional name of every scope
\* the run can miss, with ray tracing asked for
C5_Witness ==
    /\ ret = "true"
    /\ m_DeviceParams.enableRayTracingExtensions
    /\ m_RayTracingExtensions \ SelectedAdapter.extensions # {}
    /\ OptionalInstance \ driver.instanceExtensions # {}
    /\ m_RayTracingExtensions \cap dm.enabledExtensions.device # {}

MissingInstance == RequiredInstance \ driver.instanceExtensions
MissingLayers == RequiredLayers \ driver.instanceLayers

\* C6: when a required instance extension or a required layer is absent from
\* the driver's enumeration, createInstance fails, its error names every
\* missing required name of the scope, and no instance is created.
C6_MissingInstanceNames ==
    (MissingInstance # {} \/ MissingLayers # {}) =>
        /\ dm.m_VulkanInstance = VK_NULL_HANDLE
        /\ ~Called("vkCreateInstance")
        /\ pc \in {"idle", "createInstance", "aborted"}
        /\ ret # "true"
        /\ Returned("CreateDeviceAndSwapChain") =>
              /\ ret = "false"
              /\ err = IF MissingInstance # {}
                       THEN ErrorMsg("required extension(s) are not supported",
                                     MissingInstance)
                       ELSE ErrorMsg("required layer(s) are not supported",
                                     MissingLayers)

\* createInstance has failed on a driver lacking two required names of a scope
C6_Witness ==
    /\ Returned("CreateDeviceAndSwapChain")
    /\ ret = "false"
    /\ Cardinality(MissingInstance) = 2 \/ Cardinality(MissingLayers) = 2
    /\ Cardinality(err.items) = 2

BringUpSteps ==
    {"createInstance", "createWindowSurface", "pickPhysicalDevice",
     "findQueueFamilies", "createDevice", "createSwapChain"}

\* C7: a step of CreateDeviceAndSwapChain that fails leaves the manager in
\* the state the last successful step reached: the failing step changes
\* neither the members nor the parameters.
C7_FailedStepAppliesNothing ==
    [][(pc \in BringUpSteps /\ ret' = "false") =>
           (dm' = dm /\ m_DeviceParams' = m_DeviceParams)]_vars

MissingDevice == RequiredDevice \ driver.adapters[1].extensions

\* the error of pickPhysicalDevice lists "missing x" for the adapter
NamesMissing(x) ==
    /\ err.text = "Cannot find a Vulkan device"
    /\ \E item \in err.items : <<"missing", x>> \in item[3]

\* pickPhysicalDevice has run and CreateDeviceAndSwapChain has returned
PickFailed ==
    /\ Returned("CreateDeviceAndSwapChain")
    /\ dm.m_WindowSurface # VK_NULL_HANDLE

\* C8: with one adapter that lacks a required device extension X and is
\* capable otherwise, bring-up fails, the error names X, and createDevice is
\* not reached: no logical device is created.
C8_MissingDeviceExtension ==
    (Len(driver.adapters) = 1 /\ MissingDevice # {}) =>
        /\ dm.m_VulkanDevice = VK_NULL_HANDLE
        /\ ~Called("vkCreateDevice")
        /\ pc \notin {"findQueueFamilies", "createDevice", "createSwapChain"}
        /\ ret # "true"
        /\ Returned("CreateDeviceAndSwapChain") => ret = "false"
        /\ PickFailed => \A x \in MissingDevice : NamesMissing(x)

\* the selection has failed on the adapter, the user's required extension
\* being the one it lacks
C8_Witness ==
    /\ PickFailed
    /\ ret = "false"
    /\ "VK_KHR_synchronization2" \in MissingDevice
    /\ NamesMissing("VK_KHR_synchronization2")

-----------------------------------------------------------------------------
(* Adapter selection: properties of pickPhysicalDevice.                    *)

\* the first family of dev a role can take, from the adapter's own list
FirstFamily(dev, Compatible(_)) ==
    IF \E i \in 1..Len(dev.queueFamilies) : Compatible(dev.queueFamilies[i])
    THEN (CHOOSE i \in 1..Len(dev.queueFamilies) :
             /\ Compatible(dev.queueFamilies[i])
             /\ \A k \in 1..(i - 1) : ~Compatible(dev.queueFamilies[k])) - 1
    ELSE Unassigned

\* predicate 5 on the adapter's own families
ResolvesRoles(dev) ==
    /\ FirstFamily(dev, GraphicsCompatible) # Unassigned
    /\ FirstFamily(dev, PresentCompatible) # Unassigned
    /\ m_DeviceParams.enableComputeQueue =>
          FirstFamily(dev, ComputeCompatible) # Unassigned
    /\ m_DeviceParams.enableCopyQueue =>
          FirstFamily(dev, TransferCompatible) # Unassigned

\* predicate 6 on the adapter's own graphics family
PresentsFromGraphics(dev) ==
    /\ FirstFamily(dev, GraphicsCompatible) # Unassigned
    /\ dev.queueFamilies[FirstFamily(dev, GraphicsCompatible) + 1].surfaceSupport

HasFeatures(dev) == dev.samplerAnisotropy /\ dev.textureCompressionBC

\* the six predicates on the facts of the adapter itself
PassesAll(dev) ==
    /\ RequiredDevice \subseteq dev.extensions
    /\ HasFeatures(dev)
    /\ ~ImageCountUnsupported(dev.surfaceCaps, m_DeviceParams)
    /\ ~ImageExtentUnsupported(dev.surfaceCaps, m_DeviceParams)
    /\ convertFormat(m_DeviceParams.swapChainFormat) \in dev.surfaceFormats
    /\ ResolvesRoles(dev)
    /\ PresentsFromGraphics(dev)

Passing(discrete) ==
    {i \in 1..Len(driver.adapters) :
        /\ PassesAll(driver.adapters[i])
        /\ (driver.adapters[i].deviceType = "eDiscreteGpu") = discrete}

Lowest(S) == CHOOSE i \in S : \A k \in S : i <= k

\* the adapter the selection is to return, VK_NULL_HANDLE when there is none
ExpectedAdapter ==
    IF Passing(TRUE) # {} THEN Lowest(Passing(TRUE))
    ELSE IF Passing(FALSE) # {} THEN Lowest(Passing(FALSE))
    ELSE VK_NULL_HANDLE

PickSucceeded == pc = "findQueueFamilies"
PickFoundNone == PickFailed /\ err.text = "Cannot find a Vulkan device"

\* C9: pickPhysicalDevice selects the first discrete adapter that passes all
\* six predicates, else the first other adapter that passes them, and fails
\* exactly when no enumerated adapter passes them.
C9_FirstPassingAdapter ==
    /\ PickSucceeded =>
          /\ ExpectedAdapter # VK_NULL_HANDLE
          /\ dm.m_VulkanPhysicalDevice = ExpectedAdapter
    /\ PickFoundNone => ExpectedAdapter = VK_NULL_HANDLE

\* adapter i is discrete and lacks a required feature, the other adapter of
\* the pair is integrated and passes all six predicates on its own
RejectedDiscreteBeside(j) ==
    /\ Len(driver.adapters) = 2
    /\ j \in 1..2
    /\ driver.adapters[3 - j].deviceType = "eDiscreteGpu"
    /\ ~HasFeatures(driver.adapters[3 - j])
    /\ driver.adapters[j].deviceType = "eIntegratedGpu"
    /\ PassesAll(driver.adapters[j])

\* C10: beside a discrete adapter that lacks a required feature, an
\* integrated adapter that passes all six predicates on its own is selected,
\* in either enumeration order and whatever families the discrete one has.
C10_IntegratedSelected ==
    \A j \in 1..2 :
        RejectedDiscreteBeside(j) =>
            /\ PickSucceeded => dm.m_VulkanPhysicalDevice = j
            /\ ~PickFoundNone

-----------------------------------------------------------------------------
(* Adapter selection: the diagnostics of a failed selection.               *)

\* one entry for each predicate dev fails on its own facts; predicate 6 is
\* about the graphics family of dev and has no entry when dev has none
FailedPredicates(dev) ==
    {<<"missing", e>> : e \in RequiredDevice \ dev.extensions}
    \cup (IF ~dev.samplerAnisotropy
          THEN {<<"does not support", "samplerAnisotropy">>} ELSE {})
    \cup (IF ~dev.textureCompressionBC
          THEN {<<"does not support", "textureCompressionBC">>} ELSE {})
    \cup (IF ImageCountUnsupported(dev.surfaceCaps, m_DeviceParams)
          THEN {<<"cannot support", "the requested swap chain image count">>}
          ELSE {})
    \cup (IF ImageExtentUnsupported(dev.surfaceCaps, m_DeviceParams)
          THEN {<<"cannot support", "the requested swap chain size">>} ELSE {})
    \cup (IF convertFormat(m_DeviceParams.swapChainFormat) \notin dev.surfaceFormats
          THEN {<<"does not support", "the requested swap chain format">>}
          ELSE {})
    \cup (IF ~ResolvesRoles(dev)
          THEN {<<"does not support", "the necessary queue types">>} ELSE {})
    \cup (IF FirstFamily(dev, GraphicsCompatible) # Unassigned
             /\ ~PresentsFromGraphics(dev)
          THEN {<<"cannot", "present">>} ELSE {})

\* C11: when the selection fails, the error holds for every rejected adapter
\* its name and an entry for each predicate the adapter failed, not only the
\* first one.
C11_EveryFailedPredicateListed ==
    PickFoundNone =>
        \A i \in 1..Len(driver.adapters) :
            \E item \in err.items :
                /\ item[1] = i
                /\ item[2] = driver.adapters[i].deviceName
                /\ FailedPredicates(driver.adapters[i]) \subseteq item[3]

-----------------------------------------------------------------------------
(* Queue role resolution: properties of findQueueFamilies.                 *)

Roles(d) ==
    <<d.m_GraphicsQueueFamily, d.m_ComputeQueueFamily,
      d.m_TransferQueueFamily, d.m_PresentQueueFamily>>

\* findQueueFamilies over the families of dev in a manager that has resolved
\* no adapter before
FirstResolution(dev) ==
    findQueueFamilies(NewManager, m_DeviceParams, dev.queueFamilies)

\* CreateDeviceAndSwapChain has resolved the queues of the selected adapter
QueuesResolved == pc = "createDevice"

\* C12: a run of findQueueFamilies over a family list yields the roles and
\* the result of every other run over that list, also when it follows the
\* resolution of another adapter's families.
C12_ResolutionDeterministic ==
    QueuesResolved =>
        /\ FirstResolution(SelectedAdapter).ok
        /\ Roles(dm) = Roles(FirstResolution(SelectedAdapter).dm)

\* dev has a family for the compute role, for the transfer role
HasDedicatedCompute(dev) == FirstFamily(dev, ComputeCompatible) # Unassigned
HasDedicatedTransfer(dev) == FirstFamily(dev, TransferCompatible) # Unassigned

\* the entry of the failed queue resolution is listed for adapter i
QueueTypesListed(i) ==
    \E item \in err.items :
        /\ item[1] = i
        /\ <<"does not support", "the necessary queue types">> \in item[3]

\* C13: with enableComputeQueue set, an adapter without a family that has
\* compute and no graphics capability fails the resolution and is rejected,
\* wherever it is enumerated; with enableComputeQueue clear, lacking such a
\* family never fails the resolution.  The same for enableCopyQueue and a
\* dedicated transfer family.
C13_DedicatedFamilies ==
    /\ PickSucceeded =>
          /\ m_DeviceParams.enableComputeQueue =>
                HasDedicatedCompute(SelectedAdapter)
          /\ m_DeviceParams.enableCopyQueue =>
                HasDedicatedTransfer(SelectedAdapter)
    /\ PickFoundNone =>
          \A i \in 1..Len(driver.adapters) :
              /\ (m_DeviceParams.enableComputeQueue
                     /\ ~HasDedicatedCompute(driver.adapters[i])) =>
                    QueueTypesListed(i)
              /\ (m_DeviceParams.enableCopyQueue
                     /\ ~HasDedicatedTransfer(driver.adapters[i])) =>
                    QueueTypesListed(i)
              /\ ResolvesRoles(driver.adapters[i]) => ~QueueTypesListed(i)

\* pickPhysicalDevice has evaluated the adapters and returned
Evaluated ==
    /\ dm.m_WindowSurface # VK_NULL_HANDLE
    /\ pc \notin {"pickPhysicalDevice", "aborted"}

\* the roles that are assigned hold pairwise different families
Exclusive(roles) ==
    \A a \in 1..Len(roles), b \in 1..Len(roles) :
        (a # b /\ roles[a] # Unassigned) => roles[a] # roles[b]

\* C14: from no role assigned, findQueueFamilies gives each role the
\* lowest-indexed family with a queue that is compatible with it, or leaves
\* it unassigned; graphics, compute and transfer never share a family, the
\* present role may share one.
C14_LowestCompatibleFamily ==
    (Evaluated /\ hist.bringUps = 1) =>
        /\ dm.m_GraphicsQueueFamily =
              FirstFamily(driver.adapters[1], GraphicsCompatible)
        /\ dm.m_ComputeQueueFamily =
              FirstFamily(driver.adapters[1], ComputeCompatible)
        /\ dm.m_TransferQueueFamily =
              FirstFamily(driver.adapters[1], TransferCompatible)
        /\ dm.m_PresentQueueFamily =
              FirstFamily(driver.adapters[1], PresentCompatible)
        /\ Exclusive(<<dm.m_GraphicsQueueFamily, dm.m_ComputeQueueFamily,
                       dm.m_TransferQueueFamily>>)

\* the queues are resolved on <<transfer-only, universal, universal>>: each
\* role took its first family, the later universal family was ignored and
\* the present role shares the graphics family
C14_Witness ==
    /\ QueuesResolved
    /\ driver.adapters[1].queueFamilies = <<Dma, Universal, Universal>>
    /\ Roles(dm) = <<1, Unassigned, 0, 1>>

-----------------------------------------------------------------------------
(* Swapchain lifecycle: properties of ResizeSwapChain.                     *)

Calls(op) == {i \in 1..Len(calls) : calls[i][1] = op}

\* ResizeSwapChain has returned and has created a swapchain
ResizeSucceeded ==
    Returned("ResizeSwapChain") /\ dm.m_SwapChain # VK_NULL_HANDLE

\* C15: after a ResizeSwapChain that created its swapchain there are exactly
\* GetBackBufferCount() back-buffer wrappers, one per image of the new
\* swapchain and none of the old one, each created in state Present with
\* the keep-initial-state flag, and the current-image cursor is 0.
C15_BackBuffersAfterResize ==
    ResizeSucceeded =>
        /\ dm.m_SwapChain = hist.swapChains
        /\ GetBackBufferCount(dm) =
              Cardinality(Calls("createHandleForNativeTexture"))
        /\ GetBackBufferCount(dm) \in ImageCounts(m_DeviceParams)
        /\ \A k \in 1..GetBackBufferCount(dm) :
              /\ dm.m_SwapChainImages[k].swapChain = dm.m_SwapChain
              /\ dm.m_SwapChainImages[k].image = k
              /\ dm.m_SwapChainImages[k].rhiHandle.initialState = "Present"
              /\ dm.m_SwapChainImages[k].rhiHandle.keepInitialState
        /\ dm.m_SwapChainIndex = 0

\* a resize after a frame was presented has replaced the first swapchain by
\* one that returned an image more than asked for
C15_Witness ==
    /\ ResizeSucceeded
    /\ hist.presents > 0
    /\ dm.m_SwapChain = 2
    /\ GetBackBufferCount(dm) = m_DeviceParams.swapChainBufferCount + 1
    /\ Called("releaseBackBuffers")

\* in cs a device idle-wait precedes every destruction of a swapchain and
\* every release of back-buffer wrappers
WaitPrecedesRelease(cs) ==
    \A i \in 1..Len(cs) :
        cs[i][1] \in {"vkDestroySwapchainKHR", "releaseBackBuffers"} =>
            \E j \in 1..(i - 1) : cs[j][1] = "vkDeviceWaitIdle"

\* a step that destroys the swapchain or releases its wrappers
SwapChainGoes ==
    \/ dm.m_SwapChain # VK_NULL_HANDLE /\ dm'.m_SwapChain # dm.m_SwapChain
    \/ dm.m_SwapChainImages # << >> /\ dm'.m_SwapChainImages # dm.m_SwapChainImages

\* C16: in every resize and every swapchain destroy, whatever is in flight,
\* the device idle-wait completes before the swapchain is destroyed and
\* before a back-buffer wrapper is released: no GPU work is outstanding then.
C16_IdleBeforeRelease ==
    [][SwapChainGoes => (WaitPrecedesRelease(calls') /\ rhi'.pending = << >>)]_vars

\* a resize has replaced the swapchain with three frames in flight
C16_Witness ==
    /\ Returned("ResizeSwapChain")
    /\ Len(dm.m_FramesInFlight) = 3
    /\ Called("vkDestroySwapchainKHR")
    /\ Called("releaseBackBuffers")
    /\ rhi.pending = << >>

-----------------------------------------------------------------------------
(* Teardown: properties of DestroyDeviceAndSwapChain.                      *)

\* a destroy call of cs is handed an object that does not exist
DestroysNothing(cs) ==
    \E i \in 1..Len(cs) :
        /\ cs[i][1] \in {"vkDestroySemaphore", "vkDestroySwapchainKHR",
                         "vkDestroyDebugReportCallbackEXT", "vkDestroyDevice",
                         "vkDestroySurfaceKHR", "vkDestroyInstance"}
        /\ cs[i][3] = VK_NULL_HANDLE

\* C17: DestroyDeviceAndSwapChain, in whatever state the bring-up left the
\* manager, issues no destroy or wait through a null device or instance
\* handle and destroys no object that does not exist.
C17_TeardownTouchesNoNull ==
    hist.op = "DestroyDeviceAndSwapChain" =>
        /\ ~ThroughNull(calls)
        /\ ~DestroysNothing(calls)

-----------------------------------------------------------------------------
(* The rendering-hardware-interface device the manager addresses.          *)

RhiOperations ==
    {"createHandleForNativeTexture", "createCommandList",
     "queueWaitForSemaphore", "queueSignalSemaphore", "executeCommandList",
     "createEventQuery", "resetEventQuery", "setEventQuery", "waitEventQuery"}

\* C18: once the wrappers exist, every operation the manager issues on the
\* rendering-hardware-interface device is addressed to the object GetDevice()
\* returns: the validation wrapper when the validation layer is requested,
\* the base device otherwise.
C18_OutermostWrapperAddressed ==
    dm.m_NvrhiDevice # VK_NULL_HANDLE =>
        \A i \in 1..Len(calls) :
            calls[i][1] \in RhiOperations => calls[i][2] = GetDevice(dm)

-----------------------------------------------------------------------------
(* What the per-frame operations leave alone.                              *)

\* what the negotiation, the selection and the resolution have settled
Negotiated(d) == <<d.enabledExtensions, d.m_VulkanPhysicalDevice, Roles(d)>>

\* a step of BeginFrame, Present or ResizeSwapChain after a bring-up that
\* returned true
FrameStep ==
    /\ ret = "true"
    /\ hist'.op \in {"BeginFrame", "Present", "ResizeSwapChain"}

\* C19: after a successful bring-up, BeginFrame, Present and ResizeSwapChain
\* leave the enabled extension and layer sets, the selected adapter and the
\* four queue roles as they are.
C19_FrameOpsKeepNegotiated ==
    [][FrameStep => Negotiated(dm') = Negotiated(dm)]_vars

\* frames were begun and presented and the swapchain was resized
C19_Witness ==
    /\ Returned("BeginFrame")
    /\ hist.presents > 1
    /\ hist.resizes > 0
    /\ dm.m_FramesInFlight # << >>
    /\ Negotiated(dm)[2] = 1

-----------------------------------------------------------------------------
(* The order of the operations of a frame.                                 *)

\* an acquire with this result has handed out an image and signals the
\* semaphore
AcquireSignals(res) == res \in {"eSuccess", "eSuboptimalKHR"}

\* the operations of cs, in their order
Operations(cs) == [i \in 1..Len(cs) |-> cs[i][1]]

\* BeginFrame has returned: the acquire signalled the semaphore and set the
\* cursor, then the wait on the semaphore was registered
BeginFrameOrdered ==
    /\ Operations(calls) = <<"vkAcquireNextImageKHR", "queueWaitForSemaphore">>
    /\ AcquireSignals(calls[1][2])
    /\ dm.m_SwapChainIndex = calls[1][3]
    /\ calls[2][3] = dm.m_PresentSemaphore

\* Present has issued the present call: signal registration, the barrier
\* command list, then the present call
PresentOrdered ==
    /\ Len(calls) >= 5
    /\ SubSeq(Operations(calls), 1, 5) =
          <<"queueSignalSemaphore", "open", "close", "executeCommandList",
            "vkQueuePresentKHR">>
    /\ calls[1][3] = dm.m_PresentSemaphore
    /\ calls[5][3] = dm.m_SwapChainIndex

\* C20: in every frame, over one semaphore: the acquire that signals it and
\* sets the cursor, the registration of the graphics-queue wait, the
\* registration of the graphics-queue signal, the submission of the barrier
\* command list, the present call; every wait follows the signal it consumes.
C20_FrameOrder ==
    /\ Returned("BeginFrame") => BeginFrameOrdered
    /\ Returned("Present") => PresentOrdered

-----------------------------------------------------------------------------
(* Error handling of the frame operations.                                 *)

\* the result the native call op returned in the operation logged in cs
NativeResult(cs, op) ==
    LET i == CHOOSE i \in 1..Len(cs) : cs[i][1] = op IN cs[i][2]

\* the step is a call of Present
PresentCalled == hist'.op = "Present" /\ hist'.presents = hist.presents + 1

\* the swapchain, its back buffers and the cursor
SwapChainState(d) == <<d.m_SwapChain, d.m_SwapChainImages, d.m_SwapChainIndex>>

\* Present goes on past the present result as it does after eSuccess
ContinuesAsSuccess ==
    /\ pc' = IF ThrottleRuns(m_DeviceParams) THEN "throttle" ELSE "idle"
    /\ PresentQueueIdleWait(m_DeviceParams, build)
           <=> \E i \in 1..Len(calls') : calls'[i][1] = "vkQueueWaitIdle"

StalePresentTolerated ==
    (PresentCalled /\ NativeResult(calls', "vkQueuePresentKHR") = "eErrorOutOfDateKHR")
        => (ContinuesAsSuccess /\ SwapChainState(dm') = SwapChainState(dm))

FailedPresentFatal ==
    (PresentCalled /\ NativeResult(calls', "vkQueuePresentKHR")
                          \notin {"eSuccess", "eErrorOutOfDateKHR"})
        => pc' = "aborted"

\* C21: a Present whose native result is eErrorOutOfDateKHR goes on as a
\* successful one does and leaves the swapchain, the back buffers and the
\* cursor unchanged; every other result that is not eSuccess ends the run.
C21_StalePresentNonFatal == [][StalePresentTolerated /\ FailedPresentFatal]_vars

\* the last operation was a BeginFrame whose acquire did not return eSuccess
AcquireFailed ==
    /\ hist.op = "BeginFrame"
    /\ Called("vkAcquireNextImageKHR")
    /\ NativeResult(calls, "vkAcquireNextImageKHR") # "eSuccess"

\* C22: when vkAcquireNextImageKHR returns anything but eSuccess, BeginFrame
\* ends the run: it registers no wait on the semaphore and the frame does not
\* go on.
C22_FailedAcquireFatal ==
    AcquireFailed => (pc = "aborted" /\ ~Called("queueWaitForSemaphore"))

-----------------------------------------------------------------------------
(* Teardown: the order of its steps.                                       *)

\* the step a logged call belongs to
StepOf(c) == IF c[1] = "release" THEN c[2] ELSE c[1]

StepsOf(cs) == [i \in 1..Len(cs) |-> StepOf(cs[i])]

\* the steps of a teardown of manager d, in the order of the specification;
\* a step on an object d does not hold is left out
If(cond, step) == IF cond THEN <<step>> ELSE << >>

TeardownOrder(d) ==
       If(d.m_VulkanDevice # VK_NULL_HANDLE, "vkDeviceWaitIdle")
    \o If(d.m_SwapChain # VK_NULL_HANDLE, "vkDestroySwapchainKHR")
    \o If(d.m_SwapChainImages # << >>, "releaseBackBuffers")
    \o <<"vkDestroySemaphore">>
    \o If(d.m_BarrierCommandList # VK_NULL_HANDLE, "m_BarrierCommandList")
    \o If(d.m_NvrhiDevice # VK_NULL_HANDLE, "m_NvrhiDevice")
    \o If(d.m_ValidationLayer # VK_NULL_HANDLE, "m_ValidationLayer")
    \o <<"clear">>
    \o If(d.m_DebugReportCallback # VK_NULL_HANDLE, "vkDestroyDebugReportCallbackEXT")
    \o If(d.m_VulkanDevice # VK_NULL_HANDLE, "vkDestroyDevice")
    \o If(d.m_WindowSurface # VK_NULL_HANDLE, "vkDestroySurfaceKHR")
    \o If(d.m_VulkanInstance # VK_NULL_HANDLE, "vkDestroyInstance")

\* in cs nothing is addressed to the device after vkDestroyDevice and nothing
\* to the instance after vkDestroyInstance
ParentsOutlive(cs) ==
    \A i, j \in 1..Len(cs) :
        i < j =>
            /\ cs[i][1] = "vkDestroyDevice" =>
                   cs[j][2] \notin {"device", "null device", "base", "validation"}
                   /\ cs[j][1] # "release"
            /\ cs[i][1] = "vkDestroyInstance" =>
                   cs[j][2] \notin {"instance", "null instance"}

\* the step is a call of DestroyDeviceAndSwapChain
TeardownCalled == pc = "idle" /\ hist'.op = "DestroyDeviceAndSwapChain"

\* C23: one teardown performs its steps in the order idle-wait, swapchain
\* destroy, semaphore destroy, command list release, release of the two
\* wrappers, string clear, callback destroy, device destroy, surface
\* destroy, instance destroy; within it nothing is destroyed after the
\* device or the instance it was made from.
C23_TeardownOrder ==
    [][TeardownCalled =>
          /\ StepsOf(calls') = TeardownOrder(dm)
          /\ ParentsOutlive(calls')]_vars

\* a teardown of a manager that held every object has returned
C23_Witness ==
    /\ Returned("DestroyDeviceAndSwapChain")
    /\ Called("vkDeviceWaitIdle")
    /\ Called("vkDestroySwapchainKHR")
    /\ \E i \in 1..Len(calls) : StepOf(calls[i]) = "m_ValidationLayer"
    /\ Called("vkDestroyDebugReportCallbackEXT")
    /\ Called("vkDestroyDevice")
    /\ Called("vkDestroySurfaceKHR")
    /\ Called("vkDestroyInstance")

-----------------------------------------------------------------------------
(* Present: the idle wait of the present queue.                            *)

\* the positions of op in cs
Positions(cs, op) == {i \in 1..Len(cs) : cs[i][1] = op}

\* the last operation is a Present that went on past vkQueuePresentKHR
PresentWentOn == hist.op = "Present" /\ pc # "aborted"

\* C24: after vkQueuePresentKHR, Present idle-waits the present queue exactly
\* when the debug runtime is enabled, or it is disabled, vsync is enabled and
\* the build is not a Windows one; otherwise it does not idle-wait at all.
C24_PresentQueueIdleWait ==
    PresentWentOn =>
        LET waits == Positions(calls, "vkQueueWaitIdle")
            expected ==
                \/ m_DeviceParams.enableDebugRuntime
                \/ /\ ~m_DeviceParams.enableDebugRuntime
                   /\ m_DeviceParams.vsyncEnabled
                   /\ ~build.WIN32
        IN  /\ expected => /\ Cardinality(waits) = 1
                           /\ \A i \in waits :
                                 /\ calls[i][2] = "m_PresentQueue"
                                 /\ \E j \in Positions(calls, "vkQueuePresentKHR") : j < i
            /\ ~expected => waits = {}

\* a Present without the debug runtime, with vsync, on a platform without
\* implicit pacing has idle-waited the present queue and then throttled
C24_Witness ==
    /\ Returned("Present")
    /\ ~m_DeviceParams.enableDebugRuntime
    /\ m_DeviceParams.vsyncEnabled
    /\ ~build.WIN32
    /\ Called("vkQueueWaitIdle")
    /\ Called("setEventQuery")

-----------------------------------------------------------------------------
(* Queue roles after the bring-up.                                         *)

\* index is a queue family of dev that passes Compatible
IsFamilyWith(dev, index, Compatible(_)) ==
    /\ index \in 0..(Len(dev.queueFamilies) - 1)
    /\ Compatible(dev.queueFamilies[index + 1])

\* CreateDeviceAndSwapChain has returned true and no teardown followed
BroughtUp == ret = "true" /\ dm.m_VulkanDevice # VK_NULL_HANDLE

\* C25: after a successful bring-up the graphics and present indices, and the
\* compute and transfer indices when requested, are families of the selected
\* adapter with the capability of the role; the four indices are those a
\* resolution of the selected adapter alone yields, none is left from another
\* adapter; graphics, compute and transfer indices are pairwise distinct.
C25_RolesOfSelectedAdapter ==
    BroughtUp =>
        LET dev == SelectedAdapter
            g == dm.m_GraphicsQueueFamily
            c == dm.m_ComputeQueueFamily
            t == dm.m_TransferQueueFamily
        IN  /\ IsFamilyWith(dev, g, GraphicsCompatible)
            /\ IsFamilyWith(dev, dm.m_PresentQueueFamily, PresentCompatible)
            /\ m_DeviceParams.enableComputeQueue =>
                   IsFamilyWith(dev, c, ComputeCompatible)
            /\ m_DeviceParams.enableCopyQueue =>
                   IsFamilyWith(dev, t, TransferCompatible)
            /\ Roles(dm) = Roles(FirstResolution(dev).dm)
            /\ (c # Unassigned => g # c)
            /\ (t # Unassigned => g # t /\ c # t)

-----------------------------------------------------------------------------
(* The current-image cursor.                                               *)

\* GetCurrentBackBuffer() indexes inside m_SwapChainImages
CursorInRange(d) ==
    d.m_SwapChainIndex >= 0 /\ d.m_SwapChainIndex < GetBackBufferCount(d)

\* C26: in every state reached from a successful bring-up by BeginFrame,
\* Present and ResizeSwapChain calls, a resize whose swapchain creation
\* fails included, the cursor is less than GetBackBufferCount().
C26_CursorInRange == ret = "true" => CursorInRange(dm)

-----------------------------------------------------------------------------
(* The population of completion markers.                                   *)

InFlight(d) == {d.m_FramesInFlight[i] : i \in 1..Len(d.m_FramesInFlight)}

\* no more markers were created than the limit and one
MarkersBounded == rhi.created <= m_DeviceParams.maxFramesInFlight + 1

PoolEmptyOnReturn == Returned("Present") => dm.m_QueryPool = << >>

\* the markers a step resets or arms are not in the in-flight queue
ArmsOutsideQueue ==
    \A i \in 1..Len(calls') :
        (/\ calls'[i][1] \in {"resetEventQuery", "setEventQuery"}
         /\ (i > Len(calls) \/ calls'[i] # calls[i]))
            => calls'[i][3] \notin InFlight(dm)

\* C27: with the debug runtime disabled, over any number of Present calls at
\* most maxFramesInFlight + 1 markers are ever created, the pool is empty
\* whenever Present returns, and no marker is reset or armed while it is in
\* the in-flight queue.
C27_MarkerPopulation ==
    /\ [](MarkersBounded /\ PoolEmptyOnReturn)
    /\ [][ArmsOutsideQueue]_vars

\* a Present has reused the marker it retired, maxFramesInFlight + 1 markers
\* exist
C27_Witness ==
    /\ Returned("Present")
    /\ ~m_DeviceParams.enableDebugRuntime
    /\ rhi.created = m_DeviceParams.maxFramesInFlight + 1
    /\ Called("waitEventQuery")
    /\ Called("pop_back")
    /\ hist.presents = m_DeviceParams.maxFramesInFlight + 2

-----------------------------------------------------------------------------
(* The manager after the teardown.                                         *)

HandlesNull(d) ==
    /\ d.m_VulkanInstance = VK_NULL_HANDLE
    /\ d.m_DebugReportCallback = VK_NULL_HANDLE
    /\ d.m_VulkanDevice = VK_NULL_HANDLE
    /\ d.m_WindowSurface = VK_NULL_HANDLE
    /\ d.m_SwapChain = VK_NULL_HANDLE
    /\ d.m_PresentSemaphore = VK_NULL_HANDLE

RolesUnassigned(d) ==
    Roles(d) = <<Unassigned, Unassigned, Unassigned, Unassigned>>

NoMarkerHeld(d) == d.m_FramesInFlight = << >> /\ d.m_QueryPool = << >>

\* C28: when DestroyDeviceAndSwapChain has returned, every native handle is
\* null, there is no back buffer, the four queue roles are unassigned and the
\* in-flight queue and the pool hold no marker.
C28_TeardownRestoresInitial ==
    Returned("DestroyDeviceAndSwapChain") =>
        /\ HandlesNull(dm)
        /\ dm.m_SwapChainImages = << >>
        /\ RolesUnassigned(dm)
        /\ NoMarkerHeld(dm)

====
